---------------------------- MODULE Spec2Model ----------------------------
(***************************************************************************)
(* Model of the FlatGeobuf range-request API (src/app.py): the Range       *)
(* header parser, the two data sources and the HEAD/GET handlers.          *)
(*                                                                         *)
(* Strings are sequences of one-character strings, so that startswith,     *)
(* strip, split and int() are computed character by character as Python    *)
(* computes them.                                                          *)
(***************************************************************************)
EXTENDS Integers, Sequences, FiniteSets, TLC

(***************************************************************************)
(* Bounds of the model.                                                    *)
(***************************************************************************)
\* longest range specifier (the text after "bytes=") that is enumerated
MaxSpecLen == 4
\* largest enumerated resource size, in bytes
MaxSize == 3
\* largest enumerated max_range_bytes
MaxBytes == 3

(***************************************************************************)
(* Characters and Python's string operations.                              *)
(***************************************************************************)
Digits == {"0", "1", "2", "3", "4", "5", "6", "7", "8", "9"}

DigitVal(c) ==
    CASE c = "0" -> 0 [] c = "1" -> 1 [] c = "2" -> 2 [] c = "3" -> 3
      [] c = "4" -> 4 [] c = "5" -> 5 [] c = "6" -> 6 [] c = "7" -> 7
      [] c = "8" -> 8 [] c = "9" -> 9

Whitespace == {" "}

\* the characters the enumerated specifiers are built from: three digits,
\* the dash, the comma, a blank and a letter
Alphabet == {"0", "1", "2", "-", ",", " ", "a"}

BytesPrefix == <<"b", "y", "t", "e", "s", "=">>

\* str.startswith
StartsWith(s, p) == Len(s) >= Len(p) /\ SubSeq(s, 1, Len(p)) = p

\* c in s
Contains(s, c) == \E i \in 1..Len(s) : s[i] = c

RECURSIVE LStrip(_)
LStrip(s) == IF s # <<>> /\ s[1] \in Whitespace THEN LStrip(Tail(s)) ELSE s

RECURSIVE RStrip(_)
RStrip(s) ==
    IF s # <<>> /\ s[Len(s)] \in Whitespace
    THEN RStrip(SubSeq(s, 1, Len(s) - 1))
    ELSE s

\* str.strip()
Strip(s) == RStrip(LStrip(s))

\* str.split(sep): the parts between the occurrences of sep; always at
\* least one part
RECURSIVE Split(_, _)
Split(s, sep) ==
    IF ~Contains(s, sep)
    THEN <<s>>
    ELSE LET i == CHOOSE k \in 1..Len(s) :
                      s[k] = sep /\ \A j \in 1..(k - 1) : s[j] # sep
         IN  <<SubSeq(s, 1, i - 1)>> \o Split(SubSeq(s, i + 1, Len(s)), sep)

\* value of a non-empty string of decimal digits
RECURSIVE DecimalValue(_)
DecimalValue(s) ==
    IF s = <<>> THEN 0
    ELSE 10 * DecimalValue(SubSeq(s, 1, Len(s) - 1)) + DigitVal(s[Len(s)])

AllDigits(s) == s # <<>> /\ \A i \in 1..Len(s) : s[i] \in Digits

\* int(s): surrounding whitespace is ignored, one sign is allowed, the rest
\* must be decimal digits; anything else raises ValueError (ok = FALSE).
PyInt(s) ==
    LET t    == Strip(s)
        sgn  == IF t # <<>> /\ t[1] \in {"-", "+"} THEN t[1] ELSE ""
        body == IF sgn = "" THEN t ELSE Tail(t)
    IN  IF AllDigits(body)
        THEN [ok  |-> TRUE,
              val |-> IF sgn = "-" THEN 0 - DecimalValue(body)
                                   ELSE DecimalValue(body)]
        ELSE [ok |-> FALSE, val |-> 0]

Max(a, b) == IF a >= b THEN a ELSE b
Min(a, b) == IF a <= b THEN a ELSE b

(***************************************************************************)
(* Outcomes of a call: a returned interval, a raised HTTPException, or an  *)
(* exception of another class that the code does not catch.                *)
(***************************************************************************)
Interval(start, end) == [kind |-> "ok", start |-> start, end |-> end]

HTTPException(status_code, detail) ==
    [kind |-> "HTTPException", status_code |-> status_code, detail |-> detail]

\* the f-string detail of the size-ceiling failure,
\* f"Requested range too large (>{max_bytes} bytes)": the text and the number
RangeTooLarge(max_bytes) ==
    [kind |-> "HTTPException", status_code |-> 416,
     detail |-> "Requested range too large", max_bytes |-> max_bytes]

ValueError == [kind |-> "ValueError"]

(***************************************************************************)
(* RangeParser                                                             *)
(***************************************************************************)
NoError == [kind |-> "none"]

\* _validate_range with the test of the end off by one (end > file_size)
ValidateRangeEndOffByOne(start, end, file_size, max_bytes) ==
    IF start < 0 \/ end > file_size \/ start > end
    THEN HTTPException(416, "Range not satisfiable")
    ELSE IF end - start + 1 > max_bytes
         THEN RangeTooLarge(max_bytes)
         ELSE NoError

\* _validate_range with the size ceiling tested before the bounds
ValidateRangeCeilingFirst(start, end, file_size, max_bytes) ==
    IF end - start + 1 > max_bytes
    THEN RangeTooLarge(max_bytes)
    ELSE IF start < 0 \/ end >= file_size \/ start > end
         THEN HTTPException(416, "Range not satisfiable")
         ELSE NoError

\* _validate_range testing the start, not the end, against the size
ValidateRangeStartOnly(start, end, file_size, max_bytes) ==
    IF start < 0 \/ start >= file_size \/ start > end
    THEN HTTPException(416, "Range not satisfiable")
    ELSE IF end - start + 1 > max_bytes
         THEN RangeTooLarge(max_bytes)
         ELSE NoError

\* _validate_range refusing a window of exactly max_bytes
ValidateRangeCeilingOffByOne(start, end, file_size, max_bytes) ==
    IF start < 0 \/ end >= file_size \/ start > end
    THEN HTTPException(416, "Range not satisfiable")
    ELSE IF end - start + 1 >= max_bytes
         THEN RangeTooLarge(max_bytes)
         ELSE NoError

\* RangeParser._validate_range: NoError, or the exception raised
_validate_range(start, end, file_size, max_bytes) ==
    IF start < 0 \/ end >= file_size \/ start > end
    THEN HTTPException(416, "Range not satisfiable")
    ELSE IF end - start + 1 > max_bytes
         THEN RangeTooLarge(max_bytes)
         ELSE NoError

\* _parse_normal_range taking the end as exclusive
ParseNormalRangeExclusiveEnd(range_spec, file_size) ==
    LET parts == Split(range_spec, "-")
    IN  IF Len(parts) # 2
        THEN HTTPException(416, "Invalid range format")
        ELSE LET start == PyInt(parts[1])
                 end   == PyInt(parts[2])
             IN  IF ~start.ok
                 THEN HTTPException(416, "Invalid range start")
                 ELSE IF parts[2] = <<>>
                      THEN Interval(start.val, file_size - 1)
                      ELSE IF ~end.ok
                           THEN HTTPException(416, "Invalid range end")
                           ELSE Interval(start.val, end.val - 1)

\* _parse_normal_range clamping an end beyond the resource to its last byte
ParseNormalRangeClampEnd(range_spec, file_size) ==
    LET parts == Split(range_spec, "-")
    IN  IF Len(parts) # 2
        THEN HTTPException(416, "Invalid range format")
        ELSE LET start == PyInt(parts[1])
                 end   == PyInt(parts[2])
             IN  IF ~start.ok
                 THEN HTTPException(416, "Invalid range start")
                 ELSE IF parts[2] = <<>>
                      THEN Interval(start.val, file_size - 1)
                      ELSE IF ~end.ok
                           THEN HTTPException(416, "Invalid range end")
                           ELSE Interval(start.val, Min(end.val, file_size - 1))

\* _parse_normal_range ending an open-ended range at file_size
ParseNormalRangeOpenEndAtSize(range_spec, file_size) ==
    LET parts == Split(range_spec, "-")
    IN  IF Len(parts) # 2
        THEN HTTPException(416, "Invalid range format")
        ELSE LET start == PyInt(parts[1])
                 end   == PyInt(parts[2])
             IN  IF ~start.ok
                 THEN HTTPException(416, "Invalid range start")
                 ELSE IF parts[2] = <<>>
                      THEN Interval(start.val, file_size)
                      ELSE IF ~end.ok
                           THEN HTTPException(416, "Invalid range end")
                           ELSE Interval(start.val, end.val)

\* RangeParser._parse_normal_range: the pair (start, end), or the exception
_parse_normal_range(range_spec, file_size) ==
    LET parts == Split(range_spec, "-")
    IN  IF Len(parts) # 2
        THEN HTTPException(416, "Invalid range format")
        ELSE LET start == PyInt(parts[1])
                 end   == PyInt(parts[2])
             IN  IF ~start.ok
                 THEN HTTPException(416, "Invalid range start")
                 ELSE IF parts[2] = <<>>
                      THEN Interval(start.val, file_size - 1)
                      ELSE IF ~end.ok
                           THEN HTTPException(416, "Invalid range end")
                           ELSE Interval(start.val, end.val)

\* the suffix branch with end = file_size
SuffixRangeEndOffByOne(range_spec, file_size) ==
    LET suffix_length == PyInt(Tail(range_spec))
    IN  IF ~suffix_length.ok
        THEN ValueError
        ELSE IF suffix_length.val <= 0
             THEN HTTPException(416, "Invalid suffix length")
             ELSE Interval(Max(file_size - suffix_length.val, 0), file_size)

\* the suffix branch without the clamp of the start at 0
SuffixRangeNoClamp(range_spec, file_size) ==
    LET suffix_length == PyInt(Tail(range_spec))
    IN  IF ~suffix_length.ok
        THEN ValueError
        ELSE IF suffix_length.val <= 0
             THEN HTTPException(416, "Invalid suffix length")
             ELSE Interval(file_size - suffix_length.val, file_size - 1)

\* the suffix branch of RangeParser.parse
SuffixRange(range_spec, file_size) ==
    LET suffix_length == PyInt(Tail(range_spec))
    IN  IF ~suffix_length.ok
        THEN ValueError
        ELSE IF suffix_length.val <= 0
             THEN HTTPException(416, "Invalid suffix length")
             ELSE Interval(Max(file_size - suffix_length.val, 0), file_size - 1)

\* parse trying the suffix form before it looks for a comma
ParseSuffixBeforeComma(range_header, file_size, max_bytes) ==
    IF ~StartsWith(range_header, BytesPrefix)
    THEN HTTPException(416, "Only 'bytes' ranges supported")
    ELSE LET range_spec ==
                 Strip(SubSeq(range_header, Len(BytesPrefix) + 1, Len(range_header)))
         IN  IF StartsWith(range_spec, <<"-">>)
             THEN LET r == SuffixRange(range_spec, file_size)
                  IN  IF r.kind # "ok"
                      THEN r
                      ELSE LET v == _validate_range(r.start, r.end, file_size, max_bytes)
                           IN  IF v.kind # "none" THEN v ELSE r
             ELSE IF Contains(range_spec, ",")
                  THEN HTTPException(416, "Multiple ranges not supported")
                  ELSE LET r == _parse_normal_range(range_spec, file_size)
                       IN  IF r.kind # "ok"
                           THEN r
                           ELSE LET v == _validate_range(r.start, r.end,
                                                         file_size, max_bytes)
                                IN  IF v.kind # "none" THEN v ELSE r

\* RangeParser.parse
parse(range_header, file_size, max_bytes) ==
    IF ~StartsWith(range_header, BytesPrefix)
    THEN HTTPException(416, "Only 'bytes' ranges supported")
    ELSE LET range_spec ==
                 Strip(SubSeq(range_header, Len(BytesPrefix) + 1, Len(range_header)))
         IN  IF Contains(range_spec, ",")
             THEN HTTPException(416, "Multiple ranges not supported")
             ELSE LET r == IF StartsWith(range_spec, <<"-">>)
                           THEN SuffixRange(range_spec, file_size)
                           ELSE _parse_normal_range(range_spec, file_size)
                  IN  IF r.kind # "ok"
                      THEN r
                      ELSE LET v == _validate_range(r.start, r.end, file_size, max_bytes)
                           IN  IF v.kind # "none" THEN v ELSE r

(***************************************************************************)
(* The parsers of app_simple.py and app_s3.py.                             *)
(***************************************************************************)
\* app_simple.MAX_RANGE_BYTES
app_simple_MAX_RANGE_BYTES == 2 * 1024 * 1024

\* app_s3.MAX_RANGE_BYTES
app_s3_MAX_RANGE_BYTES == 2 * 1024 * 1024

\* app_simple.parse_range
app_simple_parse_range(range_header, file_size) ==
    IF ~StartsWith(range_header, BytesPrefix)
    THEN HTTPException(416, "Only 'bytes' ranges supported")
    ELSE LET range_spec ==
                 Strip(SubSeq(range_header, Len(BytesPrefix) + 1, Len(range_header)))
             parts == Split(range_spec, "-")
             suffix_length == PyInt(Tail(range_spec))
             start_int == PyInt(parts[1])
             end_int   == PyInt(parts[2])
             r == IF StartsWith(range_spec, <<"-">>)
                  THEN IF ~suffix_length.ok
                       THEN ValueError
                       ELSE IF suffix_length.val <= 0
                            THEN HTTPException(416, "Invalid suffix length")
                            ELSE Interval(Max(file_size - suffix_length.val, 0),
                                          file_size - 1)
                  ELSE IF Len(parts) # 2
                       THEN HTTPException(416, "Invalid range format")
                       ELSE IF ~start_int.ok
                            THEN HTTPException(416, "Invalid range start")
                            ELSE IF parts[2] = <<>>
                                 THEN Interval(start_int.val, file_size - 1)
                                 ELSE IF ~end_int.ok
                                      THEN HTTPException(416, "Invalid range end")
                                      ELSE Interval(start_int.val, end_int.val)
         IN  IF Contains(range_spec, ",")
             THEN HTTPException(416, "Multiple ranges not supported")
             ELSE IF r.kind # "ok"
                  THEN r
                  ELSE IF r.start < 0 \/ r.end >= file_size \/ r.start > r.end
                       THEN HTTPException(416, "Range not satisfiable")
                       ELSE IF r.end - r.start + 1 > app_simple_MAX_RANGE_BYTES
                            THEN RangeTooLarge(app_simple_MAX_RANGE_BYTES)
                            ELSE r

\* parse_range of app_s3 without the strip() of the specifier
AppS3ParseRangeNoStrip(range_header, file_size) ==
    IF ~StartsWith(range_header, BytesPrefix)
    THEN HTTPException(416, "Only 'bytes' ranges supported")
    ELSE LET range_spec ==
                 SubSeq(range_header, Len(BytesPrefix) + 1, Len(range_header))
             parts == Split(range_spec, "-")
             suffix_length == PyInt(Tail(range_spec))
             start_int == PyInt(parts[1])
             end_int   == PyInt(parts[2])
             r == IF StartsWith(range_spec, <<"-">>)
                  THEN IF ~suffix_length.ok
                       THEN ValueError
                       ELSE IF suffix_length.val <= 0
                            THEN HTTPException(416, "Invalid suffix length")
                            ELSE Interval(Max(file_size - suffix_length.val, 0),
                                          file_size - 1)
                  ELSE IF Len(parts) # 2
                       THEN HTTPException(416, "Invalid range format")
                       ELSE IF ~start_int.ok
                            THEN HTTPException(416, "Invalid range start")
                            ELSE IF parts[2] = <<>>
                                 THEN Interval(start_int.val, file_size - 1)
                                 ELSE IF ~end_int.ok
                                      THEN HTTPException(416, "Invalid range end")
                                      ELSE Interval(start_int.val, end_int.val)
         IN  IF Contains(range_spec, ",")
             THEN HTTPException(416, "Multiple ranges not supported")
             ELSE IF r.kind # "ok"
                  THEN r
                  ELSE IF r.start < 0 \/ r.end >= file_size \/ r.start > r.end
                       THEN HTTPException(416, "Range not satisfiable")
                       ELSE IF r.end - r.start + 1 > app_s3_MAX_RANGE_BYTES
                            THEN RangeTooLarge(app_s3_MAX_RANGE_BYTES)
                            ELSE r

\* app_s3.parse_range
app_s3_parse_range(range_header, file_size) ==
    IF ~StartsWith(range_header, BytesPrefix)
    THEN HTTPException(416, "Only 'bytes' ranges supported")
    ELSE LET range_spec ==
                 Strip(SubSeq(range_header, Len(BytesPrefix) + 1, Len(range_header)))
             parts == Split(range_spec, "-")
             suffix_length == PyInt(Tail(range_spec))
             start_int == PyInt(parts[1])
             end_int   == PyInt(parts[2])
             r == IF StartsWith(range_spec, <<"-">>)
                  THEN IF ~suffix_length.ok
                       THEN ValueError
                       ELSE IF suffix_length.val <= 0
                            THEN HTTPException(416, "Invalid suffix length")
                            ELSE Interval(Max(file_size - suffix_length.val, 0),
                                          file_size - 1)
                  ELSE IF Len(parts) # 2
                       THEN HTTPException(416, "Invalid range format")
                       ELSE IF ~start_int.ok
                            THEN HTTPException(416, "Invalid range start")
                            ELSE IF parts[2] = <<>>
                                 THEN Interval(start_int.val, file_size - 1)
                                 ELSE IF ~end_int.ok
                                      THEN HTTPException(416, "Invalid range end")
                                      ELSE Interval(start_int.val, end_int.val)
         IN  IF Contains(range_spec, ",")
             THEN HTTPException(416, "Multiple ranges not supported")
             ELSE IF r.kind # "ok"
                  THEN r
                  ELSE IF r.start < 0 \/ r.end >= file_size \/ r.start > r.end
                       THEN HTTPException(416, "Range not satisfiable")
                       ELSE IF r.end - r.start + 1 > app_s3_MAX_RANGE_BYTES
                            THEN RangeTooLarge(app_s3_MAX_RANGE_BYTES)
                            ELSE r


(***************************************************************************)
(* Inputs of the parser.                                                   *)
(***************************************************************************)
RECURSIVE SeqsUpTo(_, _)
SeqsUpTo(S, n) ==
    IF n = 0 THEN {<<>>}
    ELSE LET shorter == SeqsUpTo(S, n - 1)
         IN  shorter \cup {Append(s, c) : s \in shorter, c \in S}

\* every specifier over the alphabet, up to the bound
RangeSpecs == SeqsUpTo(Alphabet, MaxSpecLen)

\* headers that do not start with "bytes=": bare specifiers, the unit in
\* another case, the prefix without "=", the header of test_get_with_invalid_range
OtherHeaders ==
    {s \in RangeSpecs : Len(s) <= 2 /\ s # <<>>}
      \cup { <<"B", "y", "t", "e", "s", "=", "0", "-", "1">>,
             <<"b", "y", "t", "e", "s">>,
             <<"b", "y", "t", "e", "s", " ", "=", "0", "-", "1">>,
             <<"i", "n", "v", "a", "l", "i", "d">> }

Headers == {BytesPrefix \o s : s \in RangeSpecs} \cup OtherHeaders

\* the scenarios of the specification and of tests/test_api.py: a resource
\* of 10000 bytes served with the default max_range_bytes
ScenarioA == BytesPrefix \o <<"0", "-", "1", "0", "2", "3">>
ScenarioB == BytesPrefix \o <<"-", "1", "0", "0", "0">>
ScenarioC ==
    BytesPrefix \o <<"0", "-", "1", "0", "0", ",", "2", "0", "0", "-", "3", "0", "0">>
ScenarioF == BytesPrefix \o <<"0", "-", "2", "0", "9", "7", "1", "5", "2">>
ScenarioHeaders == {ScenarioA, ScenarioB, ScenarioC, ScenarioF}
ScenarioSize == 10 * 1000
\* Config.max_range_bytes
DefaultMaxRangeBytes == 2 * 1024 * 1024
\* Config.chunk_size
DefaultChunkSize == 1024 * 64

ParserInputs ==
    [range_header : Headers, file_size : 0..MaxSize, max_bytes : 0..MaxBytes]
      \cup [range_header : ScenarioHeaders, file_size : {ScenarioSize},
            max_bytes : {DefaultMaxRangeBytes}]

(***************************************************************************)
(* Formatting: str(n) and the f-strings of the response headers.           *)
(***************************************************************************)
DigitChar(d) ==
    CASE d = 0 -> "0" [] d = 1 -> "1" [] d = 2 -> "2" [] d = 3 -> "3"
      [] d = 4 -> "4" [] d = 5 -> "5" [] d = 6 -> "6" [] d = 7 -> "7"
      [] d = 8 -> "8" [] d = 9 -> "9"

\* str(n) of an integer
RECURSIVE StrNat(_)
StrNat(n) == IF n < 10 THEN <<DigitChar(n)>>
             ELSE Append(StrNat(n \div 10), DigitChar(n % 10))

Str(n) == IF n < 0 THEN <<"-">> \o StrNat(0 - n) ELSE StrNat(n)

\* the headers of the three well-formed shapes, written with str()
NormalHeader(A, B) == BytesPrefix \o Str(A) \o <<"-">> \o Str(B)
SuffixHeader(N) == BytesPrefix \o <<"-">> \o Str(N)
OpenHeader(A) == BytesPrefix \o Str(A) \o <<"-">>

\* get_metadata_headers announcing the length of the empty body of HEAD
GetMetadataHeadersEmptyBody(file_size) ==
    [ContentLength |-> Str(0),
     AcceptRanges  |-> "bytes",
     ContentType   |-> "application/octet-stream"]

\* FlatGeobufService.get_metadata_headers
get_metadata_headers(file_size) ==
    [ContentLength |-> Str(file_size),
     AcceptRanges  |-> "bytes",
     ContentType   |-> "application/octet-stream"]

\* get_range_headers with Content-Length taken as end - start
GetRangeHeadersLengthOffByOne(start, end, file_size) ==
    LET content_length == end - start
    IN  [ContentRange  |-> <<"b", "y", "t", "e", "s", " ">> \o Str(start)
                             \o <<"-">> \o Str(end) \o <<"/">> \o Str(file_size),
         AcceptRanges  |-> "bytes",
         ContentLength |-> Str(content_length),
         ContentType   |-> "application/octet-stream"]

\* FlatGeobufService.get_range_headers
get_range_headers(start, end, file_size) ==
    LET content_length == end - start + 1
    IN  [ContentRange  |-> <<"b", "y", "t", "e", "s", " ">> \o Str(start)
                             \o <<"-">> \o Str(end) \o <<"/">> \o Str(file_size),
         AcceptRanges  |-> "bytes",
         ContentLength |-> Str(content_length),
         ContentType   |-> "application/octet-stream"]

\* Response(status_code=200, headers=...) / StreamingResponse(..., 206, headers)
Response(status_code, headers) ==
    [kind |-> "Response", status_code |-> status_code, headers |-> headers]

FileNotFoundError == [kind |-> "FileNotFoundError"]

\* an error of the operating system met by open() or read()
OSError == [kind |-> "OSError"]

\* an error of botocore that is not a ClientError (a connection that
\* breaks, a read that times out)
BotoCoreError == [kind |-> "BotoCoreError"]

(***************************************************************************)
(* The backing store and the configuration.                                *)
(***************************************************************************)
\* largest enumerated chunk_size
MaxChunk == 2
\* an S3 body read may return fewer bytes than asked for: the short reads
\* of up to this many bytes are enumerated beside the full read
MaxShortRead == 2

Layers == {"roads", "nonexistent_layer"}

\* the byte stored at an offset of a resource: every offset of the
\* enumerated resources holds a different value
ByteAt(offset) == (offset * 7 + 3) % 256

Content(n) == [i \in 1..n |-> ByteAt(i - 1)]

\* a file of the data directory or an object of the bucket; data is kept
\* when the name is removed, for the handles that are still open on it
File(data) == [exists |-> TRUE, data |-> data]
Absent == [exists |-> FALSE, data |-> <<>>]

Stores ==
    {[l \in Layers |-> IF l = "roads" THEN File(Content(n)) ELSE Absent] :
        n \in 0..MaxSize}

Configs ==
    [max_range_bytes : 0..MaxBytes, chunk_size : 1..MaxChunk, use_s3 : BOOLEAN]

ScenarioStore ==
    [l \in Layers |-> IF l = "roads" THEN File(Content(ScenarioSize)) ELSE Absent]

ScenarioConfigs ==
    [max_range_bytes : {DefaultMaxRangeBytes}, chunk_size : {DefaultChunkSize},
     use_s3 : BOOLEAN]

\* request.headers.get("range"): None when the header is absent
None == <<"None">>

NotCalled == [kind |-> "not called"]

(***************************************************************************)
(* The data sources: LocalDataSource and S3DataSource.                     *)
(***************************************************************************)
Size(n) == [kind |-> "size", size |-> n]

\* LocalDataSource.get_file_size, line 199: file_path.exists()
LocalExists(file) ==
    IF ~file.exists THEN HTTPException(404, "Layer not found") ELSE NoError

\* LocalDataSource.get_file_size, line 202: file_path.stat().st_size
LocalStat(file) ==
    IF file.exists THEN Size(Len(file.data)) ELSE FileNotFoundError

\* S3DataSource.get_file_size, when the store answers: the ContentLength of
\* head_object, or its 404 turned into an HTTPException
S3HeadObject(file) ==
    IF file.exists THEN Size(Len(file.data))
    ELSE HTTPException(404, "Layer not found in S3")

\* f.read(n) of a file opened "rb", at position pos: the bytes that are
\* there, n at most
FileRead(data, pos, n) == SubSeq(data, pos + 1, Min(pos + n, Len(data)))

\* the body of a range request that takes end as exclusive
S3RangeBodyExclusiveEnd(data, start, end) == SubSeq(data, start + 1, Min(end, Len(data)))

\* the body get_object answers for Range "bytes={start}-{end}"
S3RangeBody(data, start, end) == SubSeq(data, start + 1, Min(end + 1, Len(data)))

\* the lengths body.read(n) may return when avail bytes are left: all that
\* was asked for, or a short read
ReadLengths(n, avail, shortReads) ==
    LET full == Min(n, avail)
    IN  {full} \cup {k \in 1..shortReads : k <= full}

RECURSIVE Concat(_)
Concat(chunks) ==
    IF chunks = <<>> THEN <<>> ELSE Head(chunks) \o Concat(Tail(chunks))

(***************************************************************************)
(* FlatGeobufService                                                       *)
(***************************************************************************)
\* FlatGeobufService.handle_head_request after the size lookup
handle_head_request(file_size) == Response(200, get_metadata_headers(file_size))

\* handle_get_request testing "range_header is None" only
HandleGetNoneOnly(range_header, file_size, max_range_bytes) ==
    IF range_header = None
    THEN HTTPException(416, "Range header required")
    ELSE parse(range_header, file_size, max_range_bytes)

\* FlatGeobufService.handle_get_request after the size lookup: the raised
\* exception, or the validated interval the StreamingResponse is built for
handle_get_request(range_header, file_size, max_range_bytes) ==
    IF range_header = None \/ range_header = <<>>
    THEN HTTPException(416, "Range header required")
    ELSE parse(range_header, file_size, max_range_bytes)

(***************************************************************************)
(* State.                                                                  *)
(***************************************************************************)
\* requests that can be in flight at once
NumReq == 2
Reqs == 1..NumReq

VARIABLES
    call,       \* the arguments of a call of RangeParser.parse
    result,     \* its outcome, NotCalled before the call
    workload,   \* which requests the clients send
    config,     \* Config, read-only after start-up
    store,      \* the data directory or the bucket: layer name -> file
    req         \* the requests: request id -> its state

vars == <<call, result, workload, config, store, req>>

\* a request slot before a request arrives
IdleRequest ==
    [pc          |-> "idle",
     method      |-> "",
     layer_name  |-> "",
     range_header |-> None,
     file_size   |-> -1,
     start       |-> -1,
     end         |-> -1,
     outcome     |-> NotCalled,   \* what the handler returned or raised
     handle      |-> "none",      \* the file handle / response body of the stream
     pos         |-> 0,           \* position of the file handle
     s3body      |-> <<>>,        \* unread bytes of the S3 response body
     remaining   |-> 0,
     bytes_sent  |-> 0,
     chunks      |-> <<>>,        \* the chunks yielded so far, in order
     raised      |-> NoError]     \* exception raised inside the generator

\* the headers sent to the service: as the parser's, one character shorter
ServiceHeaders ==
    {BytesPrefix \o s : s \in {t \in RangeSpecs : Len(t) < MaxSpecLen}}
      \cup OtherHeaders

\* the headers of requests that run side by side: one of each shape
ConcurrentHeaders == {NormalHeader(0, 1), OpenHeader(1), SuffixHeader(2)}

\* the well-formed headers over the offsets of the enumerated resources
WellFormedHeaders ==
    {NormalHeader(A, B) : A \in 0..MaxSize, B \in 0..MaxSize}
      \cup {OpenHeader(A) : A \in 0..MaxSize}
      \cup {SuffixHeader(N) : N \in 1..(MaxSize + 1)}

\* the headers the clients of a workload send
RequestHeaders(w) ==
    CASE w = "enumerated" -> ServiceHeaders \cup {None, <<>>}
      [] w = "scenario"   -> ScenarioHeaders \cup {None, <<>>}
      [] w = "concurrent" -> ConcurrentHeaders \cup {None}
      [] w = "shrink"     -> WellFormedHeaders \cup {None}
      [] w = "faults"     -> WellFormedHeaders \cup {None}
      [] w = "delete"     -> WellFormedHeaders \cup {None}
      [] OTHER            -> {None}

\* the request slots a workload uses
Clients(w) == IF w = "concurrent" THEN Reqs ELSE {1}

\* the short reads of the S3 body a workload explores: the scenario
\* workload, with its windows of a thousand bytes, has full reads only
ShortReads(w) == IF w = "scenario" THEN 0 ELSE MaxShortRead

(***************************************************************************)
(* The requests.                                                           *)
(***************************************************************************)
\* a client sends HEAD or GET /fgb/{layer_name}.fgb; the route handlers
\* head_flatgeobuf and get_flatgeobuf pass it to the service
Receive(r) ==
    /\ r \in Clients(workload)
    /\ req[r].pc = "idle"
    /\ \E method \in {"HEAD", "GET"}, layer \in DOMAIN store,
          h \in RequestHeaders(workload) :
          /\ method = "HEAD" => h = None
          /\ req' = [req EXCEPT ![r] = [@ EXCEPT !.pc = "called",
                                                 !.method = method,
                                                 !.layer_name = layer,
                                                 !.range_header = h]]
    /\ UNCHANGED <<call, result, workload, config, store>>

\* LocalDataSource.get_file_size up to the exists() test
GetFileSizeExists(r) ==
    /\ req[r].pc = "called"
    /\ ~config.use_s3
    /\ LET e == LocalExists(store[req[r].layer_name])
       IN  req' = [req EXCEPT ![r] =
                      IF e.kind # "none"
                      THEN [@ EXCEPT !.pc = "done", !.outcome = e]
                      ELSE [@ EXCEPT !.pc = "exists_ok"]]
    /\ UNCHANGED <<call, result, workload, config, store>>

\* the call of the store that yields the size: stat() or head_object
SizeLookup(file) == IF config.use_s3 THEN S3HeadObject(file) ELSE LocalStat(file)

AtSizeLookup(r) ==
    \/ config.use_s3 /\ req[r].pc = "called"
    \/ ~config.use_s3 /\ req[r].pc = "exists_ok"

\* FlatGeobufService.handle_head_request: the size lookup and the response
HandleHeadRequest(r) ==
    /\ AtSizeLookup(r)
    /\ req[r].method = "HEAD"
    /\ LET sz == SizeLookup(store[req[r].layer_name])
       IN  req' = [req EXCEPT ![r] =
                      IF sz.kind # "size"
                      THEN [@ EXCEPT !.pc = "done", !.outcome = sz]
                      ELSE [@ EXCEPT !.pc = "done",
                                     !.file_size = sz.size,
                                     !.outcome = handle_head_request(sz.size)]]
    /\ UNCHANGED <<call, result, workload, config, store>>

\* handle_get_request testing the Range header before the size lookup
HandleGetHeaderFirst(r) ==
    /\ AtSizeLookup(r)
    /\ req[r].method = "GET"
    /\ LET sz == SizeLookup(store[req[r].layer_name])
           missing == req[r].range_header = None \/ req[r].range_header = <<>>
           o  == handle_get_request(req[r].range_header, sz.size,
                                    config.max_range_bytes)
       IN  req' = [req EXCEPT ![r] =
                      IF missing
                      THEN [@ EXCEPT !.pc = "done",
                                     !.outcome = HTTPException(416, "Range header required")]
                      ELSE IF sz.kind # "size"
                      THEN [@ EXCEPT !.pc = "done", !.outcome = sz]
                      ELSE IF o.kind # "ok"
                      THEN [@ EXCEPT !.pc = "done",
                                     !.file_size = sz.size,
                                     !.outcome = o]
                      ELSE [@ EXCEPT !.pc = "created",
                                     !.file_size = sz.size,
                                     !.start = o.start,
                                     !.end = o.end,
                                     !.outcome =
                                         Response(206,
                                             get_range_headers(o.start, o.end, sz.size))]]
    /\ UNCHANGED <<call, result, workload, config, store>>

\* FlatGeobufService.handle_get_request: the size lookup, the header test,
\* the parse, and the StreamingResponse around the generator that
\* stream_range returns (no line of the generator has run yet)
HandleGetRequest(r) ==
    /\ AtSizeLookup(r)
    /\ req[r].method = "GET"
    /\ LET sz == SizeLookup(store[req[r].layer_name])
           o  == handle_get_request(req[r].range_header, sz.size,
                                    config.max_range_bytes)
       IN  req' = [req EXCEPT ![r] =
                      IF sz.kind # "size"
                      THEN [@ EXCEPT !.pc = "done", !.outcome = sz]
                      ELSE IF o.kind # "ok"
                      THEN [@ EXCEPT !.pc = "done",
                                     !.file_size = sz.size,
                                     !.outcome = o]
                      ELSE [@ EXCEPT !.pc = "created",
                                     !.file_size = sz.size,
                                     !.start = o.start,
                                     !.end = o.end,
                                     !.outcome =
                                         Response(206,
                                             get_range_headers(o.start, o.end, sz.size))]]
    /\ UNCHANGED <<call, result, workload, config, store>>

\* stream_range, first next() up to the loop: LocalDataSource opens the
\* file and seeks to start; S3DataSource calls get_object with the range
StreamOpen(r) ==
    /\ req[r].pc = "created"
    /\ LET file  == store[req[r].layer_name]
           total == req[r].end - req[r].start + 1
       IN  req' = [req EXCEPT ![r] =
                      IF ~config.use_s3
                      THEN IF file.exists
                           THEN [@ EXCEPT !.pc = "opened",
                                          !.handle = "open",
                                          !.pos = req[r].start,
                                          !.remaining = total]
                           ELSE [@ EXCEPT !.pc = "raised",
                                          !.raised = FileNotFoundError]
                      ELSE IF file.exists /\ req[r].start < Len(file.data)
                           THEN [@ EXCEPT !.pc = "opened",
                                          !.handle = "open",
                                          !.s3body = S3RangeBody(file.data,
                                                         req[r].start, req[r].end),
                                          !.remaining = total]
                           ELSE [@ EXCEPT !.pc = "raised",
                                          !.raised = HTTPException(500, "S3 error")]]
    /\ UNCHANGED <<call, result, workload, config, store>>

\* the generator treating an empty read as an error
AfterReadStrict(q, chunk) ==
    IF chunk = <<>>
    THEN [q EXCEPT !.pc = "raised",
                   !.handle = IF config.use_s3 THEN q.handle ELSE "closed",
                   !.raised = OSError]
    ELSE [q EXCEPT !.pc = "yielded",
                   !.remaining = q.remaining - Len(chunk),
                   !.bytes_sent = q.bytes_sent + Len(chunk),
                   !.pos = q.pos + Len(chunk),
                   !.s3body = SubSeq(q.s3body, Len(chunk) + 1, Len(q.s3body)),
                   !.chunks = Append(q.chunks, chunk)]

\* the state of the generator after read returned chunk: the empty chunk
\* breaks the loop, any other is yielded
AfterRead(q, chunk) ==
    IF chunk = <<>>
    THEN [q EXCEPT !.pc = "finished",
                   !.handle = IF config.use_s3 THEN q.handle ELSE "closed"]
    ELSE [q EXCEPT !.pc = "yielded",
                   !.remaining = q.remaining - Len(chunk),
                   !.bytes_sent = q.bytes_sent + Len(chunk),
                   !.pos = q.pos + Len(chunk),
                   !.s3body = SubSeq(q.s3body, Len(chunk) + 1, Len(q.s3body)),
                   !.chunks = Append(q.chunks, chunk)]

\* stream_range reading chunk_size bytes whatever remains of the window
StreamNextFullChunk(r) ==
    /\ req[r].pc \in {"opened", "yielded"}
    /\ LET q == req[r]
           n == config.chunk_size
       IN  IF q.remaining > 0
           THEN IF config.use_s3
                THEN \E k \in ReadLengths(n, Len(q.s3body), ShortReads(workload)) :
                        req' = [req EXCEPT ![r] = AfterRead(q, SubSeq(q.s3body, 1, k))]
                ELSE req' = [req EXCEPT ![r] =
                                AfterRead(q, FileRead(store[q.layer_name].data, q.pos, n))]
           ELSE req' = [req EXCEPT ![r] =
                           [q EXCEPT !.pc = "finished",
                                     !.handle = IF config.use_s3 THEN q.handle
                                                ELSE "closed"]]
    /\ UNCHANGED <<call, result, workload, config, store>>

\* stream_range of a data source that keeps one file position for all its
\* streams: every read is made where the first request's handle stands
StreamNextSharedPosition(r) ==
    /\ req[r].pc \in {"opened", "yielded"}
    /\ LET q == req[r]
           n == Min(config.chunk_size, q.remaining)
       IN  IF q.remaining > 0
           THEN IF config.use_s3
                THEN \E k \in ReadLengths(n, Len(q.s3body), ShortReads(workload)) :
                        req' = [req EXCEPT ![r] = AfterRead(q, SubSeq(q.s3body, 1, k))]
                ELSE req' = [req EXCEPT ![r] =
                                AfterRead(q, FileRead(store[q.layer_name].data,
                                                      req[1].pos, n))]
           ELSE req' = [req EXCEPT ![r] =
                           [q EXCEPT !.pc = "finished",
                                     !.handle = IF config.use_s3 THEN q.handle
                                                ELSE "closed"]]
    /\ UNCHANGED <<call, result, workload, config, store>>

\* stream_range, one turn of the loop: the test of remaining, the read,
\* and the yield or the end of the generator.  The with block closes the
\* local file when the generator ends; nothing closes the S3 body.
StreamNext(r) ==
    /\ req[r].pc \in {"opened", "yielded"}
    /\ LET q == req[r]
           n == Min(config.chunk_size, q.remaining)
       IN  IF q.remaining > 0
           THEN IF config.use_s3
                THEN \E k \in ReadLengths(n, Len(q.s3body), ShortReads(workload)) :
                        req' = [req EXCEPT ![r] = AfterRead(q, SubSeq(q.s3body, 1, k))]
                ELSE req' = [req EXCEPT ![r] =
                                AfterRead(q, FileRead(store[q.layer_name].data, q.pos, n))]
           ELSE req' = [req EXCEPT ![r] =
                           [q EXCEPT !.pc = "finished",
                                     !.handle = IF config.use_s3 THEN q.handle
                                                ELSE "closed"]]
    /\ UNCHANGED <<call, result, workload, config, store>>

\* the consumer closes the generator before it ended: GeneratorExit is
\* raised at the yield (the with block closes the local file), or the
\* generator never ran
Cancel(r) ==
    /\ req[r].pc \in {"created", "yielded"}
    /\ req' = [req EXCEPT ![r] =
                  [@ EXCEPT !.pc = "cancelled",
                            !.handle = IF req[r].pc = "yielded" /\ ~config.use_s3
                                       THEN "closed" ELSE req[r].handle]]
    /\ UNCHANGED <<call, result, workload, config, store>>

(***************************************************************************)
(* Specifications.                                                         *)
(***************************************************************************)
NoCall == [range_header |-> None, file_size |-> 0, max_bytes |-> 0]

\* the service, one request at a time, over a store that does not change
Init ==
    /\ call = NoCall
    /\ result = NotCalled
    /\ \/ /\ workload = "enumerated"
          /\ config \in Configs
          /\ store \in Stores
       \/ /\ workload = "scenario"
          /\ config \in ScenarioConfigs
          /\ store = ScenarioStore
    /\ req = [r \in Reqs |-> IdleRequest]

Next ==
    \E r \in Reqs :
        \/ Receive(r)
        \/ GetFileSizeExists(r)
        \/ HandleHeadRequest(r)
        \/ HandleGetRequest(r)
        \/ StreamOpen(r)
        \/ StreamNext(r)
        \/ Cancel(r)

Spec == Init /\ [][Next]_vars

\* the store of the requests that run side by side: two resources of
\* different lengths, no byte of one equal to a byte of the other
ConcurrentStore ==
    [l \in {"roads", "test"} |->
        IF l = "roads" THEN File(Content(MaxSize))
        ELSE File([i \in 1..(MaxSize - 1) |-> ByteAt(i + 127)])]

\* the service with requests in flight side by side, with the chunk size
\* that gives the streams the most turns to interleave
InitConcurrent ==
    /\ call = NoCall
    /\ result = NotCalled
    /\ workload = "concurrent"
    /\ config \in [max_range_bytes : {MaxBytes}, chunk_size : {1},
                   use_s3 : BOOLEAN]
    /\ store = ConcurrentStore
    /\ req = [r \in Reqs |-> IdleRequest]

SpecConcurrent == InitConcurrent /\ [][Next]_vars

\* the parser alone, as a function of its three arguments
ParserInit ==
    /\ call \in ParserInputs
    /\ result = NotCalled
    /\ workload = "parser"
    /\ config = [max_range_bytes |-> 0, chunk_size |-> 1, use_s3 |-> FALSE]
    /\ store = [l \in Layers |-> Absent]
    /\ req = [r \in Reqs |-> IdleRequest]

\* one call of RangeParser.parse
Parse ==
    /\ workload = "parser"
    /\ result = NotCalled
    /\ result' = parse(call.range_header, call.file_size, call.max_bytes)
    /\ UNCHANGED <<call, workload, config, store, req>>

ParserNext == Parse

SpecParser == ParserInit /\ [][ParserNext]_vars

\* the file or the object of a layer is cut to a shorter length while
\* requests are in flight.  A local file handle reads the file as it is at
\* the read; the body of a get_object already answered is not affected.
Truncate(layer) ==
    /\ workload = "shrink"
    /\ store[layer].exists
    /\ \E n \in 0..(Len(store[layer].data) - 1) :
          store' = [store EXCEPT ![layer].data = SubSeq(@, 1, n)]
    /\ UNCHANGED <<call, result, workload, config, req>>

\* the service over a store whose resources may shrink at any moment
InitShrink ==
    /\ call = NoCall
    /\ result = NotCalled
    /\ workload = "shrink"
    /\ config \in Configs
    /\ store \in Stores
    /\ req = [r \in Reqs |-> IdleRequest]

NextShrink ==
    \/ Next
    \/ \E layer \in Layers : Truncate(layer)

SpecShrink == InitShrink /\ [][NextShrink]_vars

\* the file or the object of a layer is removed while requests are in
\* flight.  A file already open can still be read, and so can the body of
\* a get_object already answered.
Delete(layer) ==
    /\ workload = "delete"
    /\ store[layer].exists
    /\ store' = [store EXCEPT ![layer].exists = FALSE]
    /\ UNCHANGED <<call, result, workload, config, req>>

\* the service over a store whose resources may be removed at any moment
InitDelete ==
    /\ call = NoCall
    /\ result = NotCalled
    /\ workload = "delete"
    /\ config \in Configs
    /\ store \in Stores
    /\ req = [r \in Reqs |-> IdleRequest]

NextDelete ==
    \/ Next
    \/ \E layer \in Layers : Delete(layer)

SpecDelete == InitDelete /\ [][NextDelete]_vars

\* what leaves the generator of S3DataSource.stream_range when a call of
\* the store fails: a ClientError is caught and raised again as an
\* HTTPException of status 500, any other error passes through
S3Raised(error) ==
    IF error = "ClientError" THEN HTTPException(500, "S3 error") ELSE BotoCoreError

\* get_file_size fails for a resource that may well exist: head_object
\* raises a ClientError whose code is not '404' (caught, raised again as
\* HTTPException 500) or an error that is not a ClientError (not caught);
\* stat() raises an OSError (not caught).  The handler ends there.
SizeLookupFault(r) ==
    /\ workload = "faults"
    /\ AtSizeLookup(r)
    /\ \E error \in {"ClientError", "other"} :
          req' = [req EXCEPT ![r] =
                     [@ EXCEPT !.pc = "done",
                               !.outcome = IF config.use_s3 THEN S3Raised(error)
                                           ELSE OSError]]
    /\ UNCHANGED <<call, result, workload, config, store>>

\* a failed open() or get_object tried again by the next next()
StreamOpenFaultRetry(r) ==
    /\ workload = "faults"
    /\ req[r].pc = "created"
    /\ req[r].raised = NoError
    /\ \E error \in {"ClientError", "other"} :
          req' = [req EXCEPT ![r] =
                     [@ EXCEPT !.raised = IF config.use_s3 THEN S3Raised(error)
                                          ELSE OSError]]
    /\ UNCHANGED <<call, result, workload, config, store>>

\* stream_range, first next(): open() or get_object fails.  The
\* StreamingResponse of status 206 was returned before this line ran.
StreamOpenFault(r) ==
    /\ workload = "faults"
    /\ req[r].pc = "created"
    /\ \E error \in {"ClientError", "other"} :
          req' = [req EXCEPT ![r] =
                     [@ EXCEPT !.pc = "raised",
                               !.raised = IF config.use_s3 THEN S3Raised(error)
                                          ELSE OSError]]
    /\ UNCHANGED <<call, result, workload, config, store>>

\* stream_range, one turn of the loop: the read fails.  The with block
\* closes the local file; nothing closes the S3 body.
StreamReadFault(r) ==
    /\ workload = "faults"
    /\ req[r].pc \in {"opened", "yielded"}
    /\ req[r].remaining > 0
    /\ \E error \in {"ClientError", "other"} :
          req' = [req EXCEPT ![r] =
                     [@ EXCEPT !.pc = "raised",
                               !.handle = IF config.use_s3 THEN @ ELSE "closed",
                               !.raised = IF config.use_s3 THEN S3Raised(error)
                                          ELSE OSError]]
    /\ UNCHANGED <<call, result, workload, config, store>>

\* the service over a store whose calls may fail while a range is fetched
InitFaults ==
    /\ call = NoCall
    /\ result = NotCalled
    /\ workload = "faults"
    /\ config \in Configs
    /\ store \in Stores
    /\ req = [r \in Reqs |-> IdleRequest]

NextFaults ==
    \/ Next
    \/ \E r \in Reqs : SizeLookupFault(r) \/ StreamOpenFault(r) \/ StreamReadFault(r)

SpecFaults == InitFaults /\ [][NextFaults]_vars

\* the inputs on which the three parsers are compared: the headers of
\* ParserInputs, the sizes of the enumerated resources, of the scenario
\* resource and of the resources at the 2 MiB ceiling, and the parser
\* that is called
ParsersInputs ==
    [range_header : Headers \cup ScenarioHeaders,
     file_size    : (0..MaxSize) \cup {ScenarioSize, DefaultMaxRangeBytes,
                                        DefaultMaxRangeBytes + 1},
     max_bytes    : {DefaultMaxRangeBytes},
     parser       : {"app", "app_simple", "app_s3"}]

ParsersInit ==
    /\ call \in ParsersInputs
    /\ result = NotCalled
    /\ workload = "parsers"
    /\ config = [max_range_bytes |-> 0, chunk_size |-> 1, use_s3 |-> FALSE]
    /\ store = [l \in Layers |-> Absent]
    /\ req = [r \in Reqs |-> IdleRequest]

\* one call of RangeParser.parse of app.py
ParseApp ==
    /\ workload = "parsers"
    /\ result = NotCalled
    /\ call.parser = "app"
    /\ result' = parse(call.range_header, call.file_size, call.max_bytes)
    /\ UNCHANGED <<call, workload, config, store, req>>

\* one call of parse_range of app_simple.py
ParseSimple ==
    /\ workload = "parsers"
    /\ result = NotCalled
    /\ call.parser = "app_simple"
    /\ result' = app_simple_parse_range(call.range_header, call.file_size)
    /\ UNCHANGED <<call, workload, config, store, req>>

\* one call of parse_range of app_s3.py
ParseS3 ==
    /\ workload = "parsers"
    /\ result = NotCalled
    /\ call.parser = "app_s3"
    /\ result' = app_s3_parse_range(call.range_header, call.file_size)
    /\ UNCHANGED <<call, workload, config, store, req>>

ParsersNext == ParseApp \/ ParseSimple \/ ParseS3

SpecParsers == ParsersInit /\ [][ParsersNext]_vars

(***************************************************************************)
(* Properties of the parser (SpecParser).                                  *)
(***************************************************************************)
Called == result # NotCalled

\* the numbers the properties range over: the enumerated sizes and, for
\* the scenario resource, the numbers of the scenarios
Offsets == (0..(MaxSize + 1)) \cup {12, 1000, 1023}

\* the pairs (A, B) the properties of "bytes=A-B" range over
NormalPairs ==
    ((0..MaxSize) \X Offsets) \cup {<<0, DefaultMaxRangeBytes>>}

\* the first character of the range specifier of a header "bytes=...": a
\* digit in "bytes=A-B" and "bytes=A-", the minus sign in "bytes=-N"
SpecHead(h) == IF Len(h) > Len(BytesPrefix) THEN h[Len(BytesPrefix) + 1] ELSE ""

\* the specifier of the header is made of digits and minus signs, as the
\* specifiers of NormalHeader, OpenHeader and SuffixHeader are
Numeric(h) ==
    \A i \in (Len(BytesPrefix) + 1)..Len(h) : h[i] \in Digits \cup {"-"}

RangeNotSatisfiable == HTTPException(416, "Range not satisfiable")
MultipleRangesUnsupported == HTTPException(416, "Multiple ranges not supported")
MissingRangeHeader == HTTPException(416, "Range header required")

\* C1: a header "bytes=A-B" with 0 <= A <= B < size and B-A+1 <= maxBytes
\* parses to exactly (A, B).
C1_NormalRangeExact ==
    (Called /\ Numeric(call.range_header)) =>
        \A ab \in NormalPairs :
            LET A == ab[1]
                B == ab[2]
            IN  ( /\ A <= B
                  /\ B < call.file_size
                  /\ B - A + 1 <= call.max_bytes
                  /\ call.range_header = NormalHeader(A, B) )
                => result = Interval(A, B)

C1_Witness ==
    /\ Called
    /\ call.range_header = NormalHeader(1, 2)
    /\ call.file_size = 3
    /\ call.max_bytes = 2
    /\ result = Interval(1, 2)

\* C2 as stated: a header "bytes=-N" with 0 < N <= size parses to
\* (size-N, size-1), whatever maxBytes is.
C2_SuffixAsStated ==
    Called =>
        \A N \in Offsets :
            ( /\ 0 < N
              /\ N <= call.file_size
              /\ call.range_header = SuffixHeader(N) )
            => result = Interval(call.file_size - N, call.file_size - 1)

\* C2 (amended): a header "bytes=-N" with 0 < N <= size and N <= maxBytes
\* parses to (size-N, size-1).
C2_SuffixWithinCeiling ==
    Called =>
        \A N \in Offsets :
            ( /\ 0 < N
              /\ N <= call.file_size
              /\ N <= call.max_bytes
              /\ call.range_header = SuffixHeader(N) )
            => result = Interval(call.file_size - N, call.file_size - 1)

C2_Witness ==
    /\ Called
    /\ call.range_header = SuffixHeader(2)
    /\ call.file_size = 3
    /\ call.max_bytes = 2
    /\ result = Interval(1, 2)

\* C3: every interval the parser returns lies inside the resource and is
\* no longer than maxBytes.
C3_ReturnedIntervalValid ==
    result.kind = "ok" =>
        /\ 0 <= result.start
        /\ result.start <= result.end
        /\ result.end < call.file_size
        /\ result.end - result.start + 1 <= call.max_bytes

C3_Witness ==
    /\ result.kind = "ok"
    /\ result.end = call.file_size - 1
    /\ result.end - result.start + 1 = call.max_bytes
    /\ result.start > 0

\* C4: for every header the parser returns an interval or raises an
\* HTTPException of status 416, and nothing else.
C4_ParseTotal ==
    Called =>
        \/ result.kind = "ok"
        \/ result.kind = "HTTPException" /\ result.status_code = 416

\* C6: the checks are applied in order: the verdict on the syntax does not
\* depend on the size or the ceiling (it is the verdict the same header
\* gets for an empty resource and a ceiling of 0, where every bounds check
\* fails), and a well-formed range that is out of bounds and also too long
\* is RangeNotSatisfiable.
SyntaxDetails ==
    {"Only 'bytes' ranges supported", "Multiple ranges not supported",
     "Invalid suffix length", "Invalid range format",
     "Invalid range start", "Invalid range end"}

SyntaxFailure(o) ==
    \/ o.kind = "ValueError"
    \/ o.kind = "HTTPException" /\ o.detail \in SyntaxDetails

C6_CheckOrder ==
    Called =>
        /\ LET other == parse(call.range_header, 0, 0)
           IN  IF SyntaxFailure(result) THEN other = result
                                        ELSE ~SyntaxFailure(other)
        /\ Numeric(call.range_header) =>
           \A ab \in NormalPairs :
              LET A == ab[1]
                  B == ab[2]
              IN  ( /\ (B >= call.file_size \/ A > B)
                    /\ B - A + 1 > call.max_bytes
                    /\ call.range_header = NormalHeader(A, B) )
                  => result = RangeNotSatisfiable

C6_Witness ==
    /\ Called
    /\ call.range_header = NormalHeader(0, 12)
    /\ call.file_size = 3
    /\ call.max_bytes = 3
    /\ result = RangeNotSatisfiable

\* C9: a header "bytes=<spec>" whose specifier holds a comma is rejected
\* with "Multiple ranges not supported", whatever else it holds.
C9_CommaRejected ==
    ( /\ Called
      /\ StartsWith(call.range_header, BytesPrefix)
      /\ \E i \in (Len(BytesPrefix) + 1)..Len(call.range_header) :
            call.range_header[i] = "," )
    => result = MultipleRangesUnsupported

C9_Witness ==
    /\ Called
    /\ call.range_header = BytesPrefix \o <<"-", "a", ",", "1">>
    /\ result = MultipleRangesUnsupported

\* C14: for "bytes=A-B" with A <= B and B-A+1 <= maxBytes, the end
\* B = size-1 is accepted and every end B >= size is rejected with
\* "Range not satisfiable"; so is every start A >= size.
C14_EndBoundary ==
    ( /\ Called
      /\ SpecHead(call.range_header) \in Digits
      /\ Numeric(call.range_header) ) =>
        \A ab \in NormalPairs :
            LET A == ab[1]
                B == ab[2]
            IN  /\ ( /\ A <= B
                      /\ B - A + 1 <= call.max_bytes
                      /\ B = call.file_size - 1
                      /\ call.range_header = NormalHeader(A, B) )
                    => result = Interval(A, B)
                /\ ( /\ A <= B
                      /\ B - A + 1 <= call.max_bytes
                      /\ B >= call.file_size
                      /\ call.range_header = NormalHeader(A, B) )
                    => result = RangeNotSatisfiable
                /\ ( /\ A >= call.file_size
                      /\ call.range_header = NormalHeader(A, B) )
                    => result = RangeNotSatisfiable

C14_Witness ==
    /\ Called
    /\ call.range_header = NormalHeader(1, 2)
    /\ call.file_size = 2
    /\ call.max_bytes = 3
    /\ result = RangeNotSatisfiable

\* C15: a window that lies inside the resource is accepted when its length
\* is exactly maxBytes and rejected with "Requested range too large" when
\* its length is maxBytes+1, whether it was written "bytes=A-B", "bytes=A-"
\* or "bytes=-N".
C15_CeilingBoundary ==
    (Called /\ Numeric(call.range_header)) =>
        LET size == call.file_size
            max  == call.max_bytes
            Verdict(start, end) ==
                /\ end - start + 1 = max => result = Interval(start, end)
                /\ end - start + 1 = max + 1 => result = RangeTooLarge(max)
        IN  IF SpecHead(call.range_header) \in Digits
            THEN /\ \A ab \in NormalPairs :
                       ( /\ ab[1] <= ab[2]
                         /\ ab[2] < size
                         /\ call.range_header = NormalHeader(ab[1], ab[2]) )
                       => Verdict(ab[1], ab[2])
                 /\ \A A \in Offsets :
                       ( /\ A < size
                         /\ call.range_header = OpenHeader(A) )
                       => Verdict(A, size - 1)
            ELSE \A N \in Offsets :
                     ( /\ N > 0
                       /\ size > 0
                       /\ call.range_header = SuffixHeader(N) )
                     => Verdict(Max(size - N, 0), size - 1)

C15_Witness ==
    /\ Called
    /\ call.range_header = SuffixHeader(2)
    /\ call.file_size = 3
    /\ call.max_bytes = 1
    /\ result = RangeTooLarge(1)

\* C17: a header "bytes=A-" with A >= 0 parses to (A, size-1) when A < size
\* and size-A <= maxBytes, fails with "Range not satisfiable" when
\* A >= size, and fails with "Requested range too large" when A < size and
\* size-A > maxBytes.
C17_OpenEnded ==
    ( /\ Called
      /\ SpecHead(call.range_header) \in Digits
      /\ Numeric(call.range_header) ) =>
        \A A \in Offsets :
            call.range_header = OpenHeader(A) =>
                result =
                    IF A >= call.file_size THEN RangeNotSatisfiable
                    ELSE IF call.file_size - A > call.max_bytes
                         THEN RangeTooLarge(call.max_bytes)
                         ELSE Interval(A, call.file_size - 1)

C17_Witness ==
    /\ Called
    /\ call.range_header = OpenHeader(1)
    /\ call.file_size = 3
    /\ call.max_bytes = 2
    /\ result = Interval(1, 2)

\* C25: whichever of the three parsers is called, its outcome (the
\* interval, the HTTPException with its status and detail, or the
\* ValueError) is the outcome of RangeParser.parse for the same header and
\* size with max_bytes = 2 MiB.
C25_ParsersAgree ==
    Called =>
        /\ call.max_bytes = 2 * 1024 * 1024
        /\ result = parse(call.range_header, call.file_size, 2 * 1024 * 1024)

C25_Witness ==
    /\ Called
    /\ call.parser = "app_s3"
    /\ call.range_header = OpenHeader(0)
    /\ call.file_size = 2 * 1024 * 1024 + 1
    /\ result = RangeTooLarge(2 * 1024 * 1024)

(***************************************************************************)
(* Properties of the service (Spec).                                       *)
(***************************************************************************)
\* the request has got past the size lookup
PastSizeLookup(q) == q.pc \notin {"idle", "called", "exists_ok"}

IsScenarioF(q) ==
    /\ q.method = "GET"
    /\ q.range_header = ScenarioF
    /\ store[q.layer_name].exists
    /\ Len(store[q.layer_name].data) = ScenarioSize
    /\ config.max_range_bytes = DefaultMaxRangeBytes
    /\ PastSizeLookup(q)

\* C5 as stated: scenario F (size 10000, maxBytes 2097152, header
\* "bytes=0-2097152") is answered 416 "Requested range too large".
C5_ScenarioFTooLarge ==
    \A r \in Reqs :
        IsScenarioF(req[r]) =>
            /\ req[r].pc = "done"
            /\ req[r].outcome = RangeTooLarge(DefaultMaxRangeBytes)

\* C5 (amended): scenario F is answered 416 "Range not satisfiable": the
\* end 2097152 is beyond the 10000 bytes of the resource, and the bounds
\* are checked before the ceiling.
C5_ScenarioFNotSatisfiable ==
    \A r \in Reqs :
        IsScenarioF(req[r]) =>
            /\ req[r].pc = "done"
            /\ req[r].outcome = RangeNotSatisfiable

C5_Witness ==
    \E r \in Reqs : IsScenarioF(req[r]) /\ req[r].outcome = RangeNotSatisfiable

\* C7: a GET for an existing resource with no Range header, or an empty
\* one, ends with 416 "Range header required" whatever the size of the
\* resource, and no stream is opened for it.
C7_MissingRangeHeader ==
    \A r \in Reqs :
        ( /\ req[r].method = "GET"
          /\ req[r].range_header \in {None, <<>>}
          /\ store[req[r].layer_name].exists
          /\ PastSizeLookup(req[r]) )
        => /\ req[r].pc = "done"
           /\ req[r].outcome = MissingRangeHeader
           /\ req[r].chunks = <<>>
           /\ req[r].handle = "none"

C7_Witness ==
    \E r \in Reqs :
        /\ req[r].method = "GET"
        /\ req[r].range_header = <<>>
        /\ store[req[r].layer_name].exists
        /\ Len(store[req[r].layer_name].data) < config.max_range_bytes
        /\ req[r].outcome = MissingRangeHeader

\* C8: for a resource that is not in the store, HEAD and GET end with
\* 404 whatever the Range header is.
C8_NotFoundFirst ==
    \A r \in Reqs :
        ( /\ req[r].pc # "idle"
          /\ ~store[req[r].layer_name].exists )
        => \/ req[r].pc \in {"called", "exists_ok"}
           \/ /\ req[r].pc = "done"
              /\ req[r].outcome.kind = "HTTPException"
              /\ req[r].outcome.status_code = 404

C8_Witness ==
    \E r \in Reqs :
        /\ req[r].method = "GET"
        /\ req[r].range_header = BytesPrefix \o <<"0", ",", "1">>
        /\ ~store[req[r].layer_name].exists
        /\ config.use_s3
        /\ req[r].pc = "done"
        /\ req[r].outcome.status_code = 404

\* C10: when a stream has ended, the chunks it yielded, put together in
\* order, are the bytes start..end of the resource; this for both data
\* sources and every chunk size.
C10_RoundTrip ==
    \A r \in Reqs :
        req[r].pc = "finished" =>
            Concat(req[r].chunks) =
                SubSeq(store[req[r].layer_name].data, req[r].start + 1, req[r].end + 1)

C10_Witness ==
    \E r \in Reqs :
        /\ req[r].pc = "finished"
        /\ config.use_s3
        /\ req[r].start = 1
        /\ req[r].end = 2
        /\ Len(req[r].chunks) = 2
        /\ Concat(req[r].chunks) = <<ByteAt(1), ByteAt(2)>>

\* C12: every GET that is answered with a response is answered 206 with
\* Content-Range "bytes {start}-{end}/{size}", Content-Length end-start+1
\* and Accept-Ranges "bytes", where (start, end) is the interval the parser
\* returns for the header and size is the size of the resource found by
\* the one size lookup of the request.  Scenario A: size 10000 and
\* "bytes=0-1023" give "bytes 0-1023/10000" and a body of 1024 bytes.
C12_RangeResponseHeaders ==
    \A r \in Reqs :
        LET q == req[r]
        IN  (q.method = "GET" /\ q.outcome.kind = "Response") =>
              LET o == parse(q.range_header, Len(store[q.layer_name].data),
                             config.max_range_bytes)
                  h == q.outcome.headers
              IN  /\ q.outcome.status_code = 206
                  /\ o.kind = "ok"
                  /\ q.file_size = Len(store[q.layer_name].data)
                  /\ h.ContentRange =
                        <<"b", "y", "t", "e", "s", " ">> \o Str(o.start) \o <<"-">>
                          \o Str(o.end) \o <<"/">> \o Str(q.file_size)
                  /\ PyInt(h.ContentLength) = [ok |-> TRUE, val |-> o.end - o.start + 1]
                  /\ h.AcceptRanges = "bytes"
                  /\ (q.range_header = ScenarioA /\ q.file_size = ScenarioSize) =>
                        /\ h.ContentRange =
                              <<"b", "y", "t", "e", "s", " ", "0", "-", "1", "0", "2",
                                "3", "/", "1", "0", "0", "0", "0">>
                        /\ h.ContentLength = <<"1", "0", "2", "4">>
                        /\ q.pc = "finished" => Len(Concat(q.chunks)) = 1024

C12_Witness ==
    \E r \in Reqs :
        /\ req[r].method = "GET"
        /\ req[r].range_header = ScenarioA
        /\ req[r].file_size = ScenarioSize
        /\ req[r].pc = "finished"
        /\ req[r].outcome.kind = "Response"
        /\ req[r].outcome.status_code = 206

\* C13: a HEAD for an existing resource is answered 200 with
\* Content-Length the size of the resource and Accept-Ranges "bytes", and
\* nothing more happens for it: no Content-Range, no chunk, no file handle
\* and no range fetch.
C13_HeadMetadata ==
    \A r \in Reqs :
        LET q == req[r]
        IN  ( /\ q.method = "HEAD"
              /\ store[q.layer_name].exists
              /\ PastSizeLookup(q) )
            => /\ q.pc = "done"
               /\ q.outcome.kind = "Response"
               /\ q.outcome.status_code = 200
               /\ PyInt(q.outcome.headers.ContentLength) =
                     [ok |-> TRUE, val |-> Len(store[q.layer_name].data)]
               /\ q.outcome.headers.AcceptRanges = "bytes"
               /\ DOMAIN q.outcome.headers =
                     {"ContentLength", "AcceptRanges", "ContentType"}
               /\ q.chunks = <<>>
               /\ q.bytes_sent = 0
               /\ q.handle = "none"
               /\ q.s3body = <<>>

C13_Witness ==
    \E r \in Reqs :
        /\ req[r].method = "HEAD"
        /\ Len(store[req[r].layer_name].data) = MaxSize
        /\ req[r].pc = "done"
        /\ req[r].outcome.kind = "Response"
        /\ req[r].outcome.headers.ContentLength = Str(MaxSize)

\* C16: a GET with "bytes=-N", N larger than the size of the resource, is
\* served the window (0, size-1) when 1 <= size <= maxBytes, and the body
\* of the finished stream is the whole resource; for an empty resource it
\* ends with 416 "Range not satisfiable".
C16_SuffixClamp ==
    \A r \in Reqs :
        LET q    == req[r]
            data == store[q.layer_name].data
            size == Len(data)
        IN  ( /\ q.method = "GET"
              /\ store[q.layer_name].exists
              /\ PastSizeLookup(q)
              /\ \E N \in Offsets : N > size /\ q.range_header = SuffixHeader(N) )
            => /\ size = 0 => (q.pc = "done" /\ q.outcome = RangeNotSatisfiable)
               /\ (size >= 1 /\ size <= config.max_range_bytes) =>
                     /\ q.outcome.kind = "Response"
                     /\ q.start = 0
                     /\ q.end = size - 1
                     /\ q.pc = "finished" => Concat(q.chunks) = data

C16_Witness ==
    \E r \in Reqs :
        /\ req[r].method = "GET"
        /\ req[r].range_header = SuffixHeader(12)
        /\ Len(store[req[r].layer_name].data) = 3
        /\ req[r].pc = "finished"
        /\ Concat(req[r].chunks) = Content(3)

(***************************************************************************)
(* Properties of the stream over a store that may shrink (SpecShrink).     *)
(***************************************************************************)
\* the generator of stream_range has run its first line
Streaming(q) == q.pc \in {"opened", "yielded", "finished"}

\* the source has no byte left for the stream of q
SourceExhausted(q) ==
    IF config.use_s3 THEN q.s3body = <<>>
    ELSE q.start + q.bytes_sent >= Len(store[q.layer_name].data)

\* C11: within one stream every chunk is non-empty and at most chunk_size
\* long; the chunks, in order, are the bytes at the offsets start,
\* start+1, ... with no gap and no overlap; the running total is at most
\* end-start+1; while the stream runs remaining is end-start+1 minus the
\* total, so that at most end-start+1 chunks are yielded before the end;
\* and a stream that ended has sent end-start+1 bytes or met an empty read.
C11_ChunkDiscipline ==
    \A r \in Reqs :
        LET q == req[r]
            total == q.end - q.start + 1
        IN  (Streaming(q) \/ (q.pc = "cancelled" /\ q.handle # "none")) =>
              /\ \A i \in 1..Len(q.chunks) :
                    /\ Len(q.chunks[i]) >= 1
                    /\ Len(q.chunks[i]) <= config.chunk_size
              /\ Concat(q.chunks) =
                    [i \in 1..q.bytes_sent |-> ByteAt(q.start + i - 1)]
              /\ q.bytes_sent <= total
              /\ q.remaining = total - q.bytes_sent
              /\ Len(q.chunks) <= total
              /\ q.pc = "finished" =>
                    \/ q.bytes_sent = total
                    \/ SourceExhausted(q)

C11_Witness ==
    \E r \in Reqs :
        /\ req[r].pc = "finished"
        /\ ~config.use_s3
        /\ Len(req[r].chunks) = 2
        /\ req[r].bytes_sent < req[r].end - req[r].start + 1

\* a step of the generator of q that fetches from the store: its first
\* next() (open, or get_object) or a turn of the loop that reads
Fetches(q, q2) ==
    /\ q2 # q
    /\ q2.pc # "cancelled"
    /\ \/ q.pc = "created"
       \/ q.pc \in {"opened", "yielded"} /\ q.remaining > 0

\* the response of q is the 206 built by handle_get_request, announcing
\* the whole window
Announces206(q) ==
    /\ q.outcome.kind = "Response"
    /\ q.outcome.status_code = 206
    /\ PyInt(q.outcome.headers.ContentLength) =
          [ok |-> TRUE, val |-> q.end - q.start + 1]

C18_FetchFaultIs500 ==
    \A r \in Reqs :
        req[r].pc = "raised" =>
            /\ req[r].outcome.kind = "HTTPException"
            /\ req[r].outcome.status_code = 500
            /\ req[r].chunks = <<>>

\* C19: a stream that has ended, whether after its last chunk, at an empty
\* read, by the consumer closing it between chunks or by a read that
\* raised, does not leave its file handle or response body open.
C19_HandleReleased ==
    \A r \in Reqs :
        req[r].pc \in {"finished", "cancelled", "raised"} => req[r].handle # "open"

\* the request has ended: the handler raised or returned a plain
\* response, or the generator of its stream ended, was closed or raised
Terminal(q) == q.pc \in {"done", "finished", "cancelled", "raised"}

\* the range fetch of the request (open, or get_object) has been tried
Fetched(q) ==
    \/ q.pc \in {"opened", "yielded", "finished", "raised"}
    \/ q.pc = "cancelled" /\ q.handle # "none"

\* C21: the calls of a request follow one path with no way back.  Nothing
\* happens for a request that has ended, so no call, failed or not, is
\* made again; once the size lookup is past it stays past, with the size
\* and the response it led to; a HEAD does nothing but the lookup; the
\* range fetch is tried at most once, from the one state a GET reaches
\* through the lookup with a Range header that parsed to an interval; a
\* request answered 404 or 416 has ended without a fetch.
C21_CallDiscipline ==
    [][\A r \in Reqs :
          LET q  == req[r]
              q2 == req'[r]
          IN  q2 # q =>
                /\ ~Terminal(q)
                /\ PastSizeLookup(q) =>
                      /\ PastSizeLookup(q2)
                      /\ q2.file_size = q.file_size
                      /\ q2.outcome = q.outcome
                /\ q.method = "HEAD" =>
                      /\ q2.pc \in {"exists_ok", "done"}
                      /\ q2.handle = "none"
                /\ q2.pc = "created" =>
                      /\ AtSizeLookup(r)
                      /\ q.method = "GET"
                      /\ q.range_header \notin {None, <<>>}
                      /\ q2.file_size = Len(store[q.layer_name].data)
                      /\ parse(q.range_header, q2.file_size,
                               config.max_range_bytes) = Interval(q2.start, q2.end)
                /\ Fetched(q2) =>
                      \/ Fetched(q)
                      \/ q.pc = "created" /\ q.raised = NoError
                /\ ( /\ q2.outcome.kind = "HTTPException"
                      /\ q2.outcome.status_code \in {404, 416} ) =>
                      /\ q2.pc = "done"
                      /\ q2.handle = "none"
                      /\ q2.raised = NoError]_vars

C21_Witness ==
    \E r \in Reqs :
        /\ req[r].method = "GET"
        /\ req[r].pc = "raised"
        /\ req[r].handle = "none"
        /\ req[r].raised = HTTPException(500, "S3 error")

\* C23: with the S3 data source, whatever fails at head_object or at
\* get_object and the reads of its body, the handler and the generator
\* raise nothing but an HTTPException: 404 for a resource that is not
\* there, 500 for every other failure.
C23_S3ErrorsWrapped ==
    \A r \in Reqs :
        LET q == req[r]
        IN  config.use_s3 =>
              /\ q.outcome.kind \in {"not called", "Response", "HTTPException"}
              /\ q.raised.kind \in {"none", "HTTPException"}
              /\ q.outcome.kind = "HTTPException" =>
                    q.outcome.status_code \in {404, 416, 500}
              /\ q.raised.kind = "HTTPException" => q.raised.status_code = 500
              /\ (q.pc = "done" /\ ~store[q.layer_name].exists) =>
                    /\ q.outcome.kind = "HTTPException"
                    /\ q.outcome.status_code \in {404, 500}

(***************************************************************************)
(* Properties of the service over a store that loses files (SpecDelete).   *)
(***************************************************************************)
\* C24: with the local data source and files that may be removed at any
\* moment, a request that has ended in its handler got a response or an
\* HTTPException (the size was found, or the answer is 404), and the
\* generator of a stream raises nothing when it opens the file.
C24_DeleteRaceHandled ==
    \A r \in Reqs :
        LET q == req[r]
        IN  ~config.use_s3 =>
              /\ q.pc = "done" => q.outcome.kind \in {"Response", "HTTPException"}
              /\ q.raised = NoError

(***************************************************************************)
(* Properties of requests in flight side by side (SpecConcurrent).         *)
(***************************************************************************)
\* the chunks of q are, in order and with no gap, the bytes of its own
\* resource from its own start on, and its handle stands after them
OwnWindow(q) ==
    LET data == store[q.layer_name].data
    IN  /\ \A i \in 1..Len(q.chunks) : q.chunks[i] # <<>>
        /\ Concat(q.chunks) = SubSeq(data, q.start + 1, q.start + q.bytes_sent)
        /\ q.bytes_sent <= q.end - q.start + 1
        /\ q.start + q.bytes_sent <= Len(data)
        /\ ~config.use_s3 => q.pos = q.start + q.bytes_sent
        /\ config.use_s3 =>
              q.s3body = SubSeq(data, q.start + q.bytes_sent + 1, q.end + 1)
        /\ q.pc = "finished" => q.bytes_sent = q.end - q.start + 1

\* C22: whatever the interleaving of the requests, every step leaves the
\* configuration and the store as they were and changes one request only,
\* and after it the stream of each request holds the bytes of its own
\* window in order, whatever the other requests have read.
C22_Isolation ==
    [][/\ config' = config
       /\ store' = store
       /\ \A r1, r2 \in Reqs :
             r1 # r2 => (req'[r1] = req[r1] \/ req'[r2] = req[r2])
       /\ \A r \in Reqs :
             Streaming(req'[r]) => OwnWindow(req'[r])]_vars

C22_Witness ==
    /\ ~config.use_s3
    /\ req[1].pc = "yielded"
    /\ req[2].pc = "yielded"
    /\ req[1].layer_name = req[2].layer_name
    /\ req[1].start # req[2].start
    /\ req[1].remaining > 0
    /\ req[2].remaining > 0

=============================================================================
